---- MODULE Spec2Model ----
(***************************************************************************)
(* Sales analytics system: the catalog mapping builder, the identifier     *)
(* normalizer and the enrichment engine of api_handler.py, and the         *)
(* aggregation functions of utlis/data_processor.py.                       *)
(*                                                                         *)
(* Python values are tagged records (PyNone, PyStr, PyInt, PyBool); a      *)
(* string is the sequence of its characters.  Money is counted in          *)
(* hundredths, so that round(x, 2) of a sum of quantity * price is exact.  *)
(***************************************************************************)
EXTENDS Integers, Sequences, FiniteSets, TLC

VARIABLES
    pc,              \* position of the function under analysis
    product_id,      \* extract_numeric_product_id: its argument
    id_ret,          \* extract_numeric_product_id: what the call gave
    api_products,    \* create_product_mapping: its argument
    mapping,         \* create_product_mapping: the dictionary being built
    map_i,           \* create_product_mapping: index of the entry the loop is at
    heap,            \* the dictionary objects: heap[r] is the content of object r
    transactions,    \* the list of transactions: references into heap
    given,           \* history: the content of the transactions as the caller passed them
    product_mapping, \* enrich_sales_data: the catalog mapping
    enriched,        \* enrich_sales_data: the list being built (references)
    new_t,           \* enrich_sales_data: the record of the current iteration
    pid_raw,         \* enrich_sales_data: the raw product id read from the aliases
    numeric_id,      \* enrich_sales_data: the normalized identifier
    raised,          \* history: <<position, statement>> of every exception the try block raised
    fn,              \* the aggregation function that was called
    arg,             \* its second argument (n or threshold), 0 when it takes none
    result           \* what it returned

extractVars == <<product_id, id_ret>>

mappingVars == <<api_products, mapping, map_i>>

inputVars == <<transactions, given>>

enrichVars == <<heap, product_mapping, enriched, new_t, pid_raw, numeric_id, raised>>

aggVars == <<fn, arg, result>>

vars == <<pc, extractVars, mappingVars, inputVars, enrichVars, aggVars>>

----------------------------------------------------------------------------
\* Bounds of the model.

MaxLen == 3

MaxCatalog == 2

MaxEnrich == 2

MaxSales == 3

MaxArg == 2

----------------------------------------------------------------------------
\* Python values.

PyNone == [kind |-> "None", chars |-> <<>>, num |-> 0]

PyStr(s) == [kind |-> "str", chars |-> s, num |-> 0]

PyInt(n) == [kind |-> "int", chars |-> <<>>, num |-> n]

PyBool(b) == [kind |-> "bool", chars |-> <<>>, num |-> IF b THEN 1 ELSE 0]

\* bool(v): None, "", 0 and False are falsy.
Truthy(v) ==
    CASE v.kind = "None" -> FALSE
      [] v.kind = "str" -> v.chars # <<>>
      [] OTHER -> v.num # 0

\* a or b
PyOr(a, b) == IF Truthy(a) THEN a ELSE b

\* The outcome of an expression that may raise.
Ok(v) == [raised |-> FALSE, value |-> v]

Raised == [raised |-> TRUE, value |-> PyNone]

----------------------------------------------------------------------------
\* Characters.  "^2" stands for the superscript two, a character for which
\* str.isdigit() is true and which int() does not accept.

DecimalDigits == {"0", "1", "2", "3", "4", "5", "6", "7", "8", "9"}

DigitVal(c) ==
    CASE c = "0" -> 0 [] c = "1" -> 1 [] c = "2" -> 2 [] c = "3" -> 3
      [] c = "4" -> 4 [] c = "5" -> 5 [] c = "6" -> 6 [] c = "7" -> 7
      [] c = "8" -> 8 [] c = "9" -> 9

DigitChar(d) ==
    CASE d = 0 -> "0" [] d = 1 -> "1" [] d = 2 -> "2" [] d = 3 -> "3"
      [] d = 4 -> "4" [] d = 5 -> "5" [] d = 6 -> "6" [] d = 7 -> "7"
      [] d = 8 -> "8" [] d = 9 -> "9"

\* ch.isdigit()
IsDigit(c) == c \in DecimalDigits \cup {"^2"}

IsSpace(c) == c = " "

\* ch.lower(), on the letters of the model
Lower(c) == IF c = "P" THEN "p" ELSE IF c = "X" THEN "x" ELSE c

RECURSIVE LStrip(_)
LStrip(s) == IF s # <<>> /\ IsSpace(Head(s)) THEN LStrip(Tail(s)) ELSE s

RECURSIVE RStrip(_)
RStrip(s) ==
    IF s # <<>> /\ IsSpace(s[Len(s)]) THEN RStrip(SubSeq(s, 1, Len(s) - 1)) ELSE s

\* s.strip()
Strip(s) == RStrip(LStrip(s))

\* The value of a string of decimal digits, read left to right.
RECURSIVE DigitsValue(_, _)
DigitsValue(s, acc) ==
    IF s = <<>> THEN acc ELSE DigitsValue(Tail(s), acc * 10 + DigitVal(Head(s)))

AllDecimal(s) == \A k \in 1..Len(s) : s[k] \in DecimalDigits

\* The decimal digits of a natural number.
RECURSIVE NatChars(_)
NatChars(n) ==
    IF n < 10 THEN <<DigitChar(n)>> ELSE Append(NatChars(n \div 10), DigitChar(n % 10))

\* str(v) for a string or an integer
StrOf(v) ==
    CASE v.kind = "str" -> v.chars
      [] v.kind = "int" -> IF v.num < 0 THEN <<"-">> \o NatChars(-v.num) ELSE NatChars(v.num)
      [] v.kind = "bool" -> IF v.num = 1 THEN <<"T", "r", "u", "e">> ELSE <<"F", "a", "l", "s", "e">>
      [] OTHER -> <<"N", "o", "n", "e">>

\* int(s) of a string: surrounding whitespace and one sign are accepted, then
\* decimal digits only; anything else raises ValueError.
IntOfChars(s) ==
    LET t == Strip(s)
        signed == t # <<>> /\ Head(t) \in {"-", "+"}
        body == IF signed THEN Tail(t) ELSE t
    IN  IF body = <<>> \/ ~AllDecimal(body)
        THEN Raised
        ELSE Ok(PyInt(IF signed /\ Head(t) = "-"
                      THEN -DigitsValue(body, 0) ELSE DigitsValue(body, 0)))

\* int(v): None raises TypeError, a string is parsed, a number is itself.
PyIntOf(v) ==
    CASE v.kind = "None" -> Raised
      [] v.kind = "str" -> IntOfChars(v.chars)
      [] OTHER -> Ok(PyInt(v.num))

----------------------------------------------------------------------------
\* api_handler.py: extract_numeric_product_id

\* The body of the try block.
ExtractBody(v) ==
    IF ~Truthy(v)
    THEN Ok(PyNone)
    ELSE LET s == Strip(StrOf(v))
             s1 == IF s # <<>> /\ Lower(Head(s)) = "p" THEN Tail(s) ELSE s
             digits == SelectSeq(s1, IsDigit)
         IN  IF digits = <<>> THEN Ok(PyNone) ELSE IntOfChars(digits)

\* The bare except turns every failure into None.
extract_numeric_product_id(v) ==
    LET r == ExtractBody(v) IN IF r.raised THEN PyNone ELSE r.value

----------------------------------------------------------------------------
\* Inputs of the identifier normalizer: None, small integers, and every string
\* of at most MaxLen characters over IdChars.

IdChars == {"P", "p", "0", "1", "8", "X", "-", " ", "^2"}

IdStrings == UNION {[1..n -> IdChars] : n \in 0..MaxLen}

IdInts == {-5, 0, 7, 10}

RawProductIds ==
    {PyNone} \cup {PyStr(s) : s \in IdStrings} \cup {PyInt(n) : n \in IdInts}

IdleExtract == product_id = PyNone /\ id_ret = PyNone

IdleMapping == api_products = <<>> /\ mapping = <<>> /\ map_i = 0

IdleInput == transactions = <<>> /\ given = <<>>

IdleEnrich ==
    /\ heap = <<>>
    /\ product_mapping = <<>>
    /\ enriched = <<>>
    /\ new_t = 0
    /\ pid_raw = PyNone
    /\ numeric_id = PyNone
    /\ raised = {}

IdleAgg == fn = "" /\ arg = 0 /\ result = <<>>

InitExtract ==
    /\ pc = "extract"
    /\ product_id \in RawProductIds
    /\ id_ret = PyNone
    /\ IdleMapping
    /\ IdleInput
    /\ IdleEnrich
    /\ IdleAgg

ExtractNumericProductId ==
    /\ pc = "extract"
    /\ id_ret' = extract_numeric_product_id(product_id)
    /\ pc' = "extract_returned"
    /\ UNCHANGED <<product_id, mappingVars, inputVars, enrichVars, aggVars>>

NextExtract == ExtractNumericProductId

SpecExtract == InitExtract /\ [][NextExtract]_vars

----------------------------------------------------------------------------
\* What the normalizer is specified to give: None for None or the empty
\* string; otherwise the string form, trimmed, one leading P or p stripped, the
\* decimal digits kept in order and read in base 10, None when none remains.
C6_Expected(v) ==
    IF v.kind = "None" \/ (v.kind = "str" /\ v.chars = <<>>)
    THEN PyNone
    ELSE LET s == Strip(StrOf(v))
             s1 == IF s # <<>> /\ Head(s) \in {"P", "p"} THEN Tail(s) ELSE s
             digits == SelectSeq(s1, LAMBDA c : c \in DecimalDigits)
         IN  IF digits = <<>> THEN PyNone ELSE PyInt(DigitsValue(digits, 0))

\* C6: for every raw product-id value, extract_numeric_product_id gives None
\* when the value is None or empty; otherwise it takes the string form, trims
\* whitespace, strips one leading P or p, keeps the decimal digits in order and
\* gives their base-10 value, or None when no digit remains; it never raises.
C6_NormalizerAsSpecified ==
    pc = "extract_returned" => id_ret = C6_Expected(product_id)

----------------------------------------------------------------------------
\* api_handler.py: create_product_mapping

\* A catalog entry is a dictionary read only through p.get(key), which gives
\* None for an absent key as for a null value: an entry is the record of what
\* p.get gives for each of the six keys.
CatalogIds == {PyNone, PyInt(1), PyInt(2), PyStr(<<"1">>), PyStr(<<"x">>)}

CatalogEntries ==
    [id : CatalogIds,
     title : {PyStr(<<"T">>)},
     category : {PyNone, PyStr(<<"E">>)},
     brand : {PyNone, PyStr(<<"A">>)},
     rating : {PyNone, PyInt(4)},
     price : {PyInt(9)}]

Catalogs == UNION {[1..n -> CatalogEntries] : n \in 0..MaxCatalog}

\* The dictionary stored under the key.
InfoOf(p) ==
    [title |-> p.title, category |-> p.category, brand |-> p.brand,
     rating |-> p.rating, price |-> p.price]

MapPutKeepFirst(m, key, info) ==
    [k \in DOMAIN m \cup {key} |-> IF k \in DOMAIN m THEN m[k] ELSE info]

\* mapping[key] = info
MapPut(m, key, info) ==
    [k \in DOMAIN m \cup {key} |-> IF k = key THEN info ELSE m[k]]

InitMapping ==
    /\ pc = "map_for"
    /\ api_products \in Catalogs
    /\ mapping = <<>>
    /\ map_i = 1
    /\ IdleExtract
    /\ IdleInput
    /\ IdleEnrich
    /\ IdleAgg

\* pid is None: continue
MapSkip ==
    /\ pc = "map_for"
    /\ map_i <= Len(api_products)
    /\ api_products[map_i].id = PyNone
    /\ map_i' = map_i + 1
    /\ UNCHANGED <<pc, api_products, mapping, extractVars, inputVars, enrichVars, aggVars>>

\* mapping[int(pid)] = {...}
MapStore ==
    /\ pc = "map_for"
    /\ map_i <= Len(api_products)
    /\ api_products[map_i].id # PyNone
    /\ ~PyIntOf(api_products[map_i].id).raised
    /\ mapping' = MapPut(mapping, PyIntOf(api_products[map_i].id).value.num,
                          InfoOf(api_products[map_i]))
    /\ map_i' = map_i + 1
    /\ UNCHANGED <<pc, api_products, extractVars, inputVars, enrichVars, aggVars>>

\* int(pid) raises ValueError, which nothing in the function catches.
MapRaise ==
    /\ pc = "map_for"
    /\ map_i <= Len(api_products)
    /\ api_products[map_i].id # PyNone
    /\ PyIntOf(api_products[map_i].id).raised
    /\ pc' = "map_raised"
    /\ UNCHANGED <<mappingVars, extractVars, inputVars, enrichVars, aggVars>>

MapReturn ==
    /\ pc = "map_for"
    /\ map_i > Len(api_products)
    /\ pc' = "map_returned"
    /\ UNCHANGED <<mappingVars, extractVars, inputVars, enrichVars, aggVars>>

NextMapping == MapSkip \/ MapStore \/ MapRaise \/ MapReturn

SpecMapping == InitMapping /\ [][NextMapping]_vars

----------------------------------------------------------------------------
\* The entries whose identifier is present, and the integer each is stored under.

HasId(p) == p.id # PyNone

ParsesAsInt(p) == HasId(p) /\ ~PyIntOf(p.id).raised

KeyOf(p) == PyIntOf(p.id).value.num

\* C4: when every present identifier is valid, the mapping's key set is exactly
\* the set of distinct integer-coerced identifiers of the input, and the value
\* under each key is built from the last input entry with that identifier.
C4_LastEntryWins ==
    pc = "map_returned" =>
        /\ DOMAIN mapping =
               {KeyOf(api_products[j]) : j \in {j \in 1..Len(api_products) : HasId(api_products[j])}}
        /\ \A k \in DOMAIN mapping :
               LET js == {j \in 1..Len(api_products) :
                            HasId(api_products[j]) /\ KeyOf(api_products[j]) = k}
                   last == CHOOSE j \in js : \A j2 \in js : j2 <= j
               IN  mapping[k] = InfoOf(api_products[last])

\* Two entries with one coerced identifier (the integer 1 and the string "1")
\* and different fields were mapped to a single key.
C4_Witness ==
    /\ pc = "map_returned"
    /\ Len(api_products) = 2
    /\ api_products[1].id = PyInt(1)
    /\ api_products[2].id = PyStr(<<"1">>)
    /\ api_products[1].brand # api_products[2].brand
    /\ DOMAIN mapping = {1}

\* C5: create_product_mapping never raises; an entry whose identifier is
\* missing or cannot be parsed as an integer is left out, and every other
\* entry of the same input is mapped.
C5_MalformedDroppedSilently ==
    /\ pc # "map_raised"
    /\ pc = "map_returned" =>
           DOMAIN mapping =
               {KeyOf(api_products[j]) : j \in {j \in 1..Len(api_products) : ParsesAsInt(api_products[j])}}

----------------------------------------------------------------------------
\* Dictionaries.  A dictionary is the function from its keys to their values;
\* as a Python value it is PyDict(items).

PyDict(d) == [kind |-> "dict", items |-> d]

\* d.get(key)
Get(d, key) == IF key \in DOMAIN d THEN d[key] ELSE PyNone

\* d[key] = v
DictSet(d, key, v) == [k \in DOMAIN d \cup {key} |-> IF k = key THEN v ELSE d[k]]

\* A reference shared instead of a copy made.
DictAlias(h, r) == [heap |-> h, ref |-> r]

\* dict(t): a new object with the content of object r.
DictCopy(h, r) == [heap |-> Append(h, h[r]), ref |-> Len(h) + 1]

\* info.get(key): AttributeError when the mapped value is no dictionary.
InfoGet(info, key) == IF info.kind = "dict" THEN Ok(Get(info.items, key)) ELSE Raised

----------------------------------------------------------------------------
\* api_handler.py: enrich_sales_data

\* new_t.get("ProductID") or new_t.get("product_id") or new_t.get("productId")
ReadAlias(d) ==
    PyOr(PyOr(Get(d, "ProductID"), Get(d, "product_id")), Get(d, "productId"))

\* numeric_id is not None and numeric_id in product_mapping
InMapping(id, m) == id # PyNone /\ id.num \in DOMAIN m

ElseWritesMatch(d) ==
    DictSet(DictSet(DictSet(DictSet(d, "API_Category", PyNone),
        "API_Brand", PyNone), "API_Rating", PyNone), "API_Match", PyBool(TRUE))

\* The else branch.
ElseWrites(d) ==
    DictSet(DictSet(DictSet(DictSet(d, "API_Category", PyNone),
        "API_Brand", PyNone), "API_Rating", PyNone), "API_Match", PyBool(FALSE))

ExceptWritesFlagOnly(d) == DictSet(d, "API_Match", PyBool(FALSE))

\* The except branch.
ExceptWrites(d) ==
    DictSet(DictSet(DictSet(DictSet(d, "API_Category", PyNone),
        "API_Brand", PyNone), "API_Rating", PyNone), "API_Match", PyBool(FALSE))

\* Transactions: the fields every sample carries, and the product-id aliases.
BaseFields == [TransactionID |-> PyStr(<<"T", "1">>), Quantity |-> PyStr(<<"2">>)]

WithKey(d, key, v) == DictSet(d, key, v)

EnrichSamples ==
    { WithKey(BaseFields, "ProductID", PyStr(<<"P", "1">>)),
      WithKey(BaseFields, "ProductID", PyStr(<<"X", "9">>)),
      WithKey(WithKey(BaseFields, "ProductID", PyStr(<<>>)), "product_id", PyStr(<<"p", "2">>)),
      WithKey(WithKey(BaseFields, "ProductID", PyStr(<<"P", "2">>)), "product_id", PyStr(<<"p", "1">>)),
      WithKey(BaseFields, "productId", PyInt(1)),
      BaseFields }

\* Catalog mappings: under key 1 nothing, a full entry, an entry with a null
\* brand, or a value that is no dictionary; under key 2 nothing or a full entry.
FullEntry ==
    [id |-> PyInt(1), title |-> PyStr(<<"T">>), category |-> PyStr(<<"E">>),
     brand |-> PyStr(<<"A">>), rating |-> PyInt(4), price |-> PyInt(9)]

NullBrandEntry == [FullEntry EXCEPT !.brand = PyNone]

EnrichMappings ==
    { [k \in ks |-> IF k = 1 THEN v1 ELSE PyDict(InfoOf(FullEntry))] :
        ks \in SUBSET {1, 2},
        v1 \in {PyDict(InfoOf(FullEntry)), PyDict(InfoOf(NullBrandEntry)), PyNone} }

InitEnrich ==
    /\ pc = "enrich_for"
    /\ \E n \in 0..MaxEnrich :
          /\ heap \in [1..n -> EnrichSamples]
          /\ transactions = [j \in 1..n |-> j]
    /\ given = heap
    /\ product_mapping \in EnrichMappings
    /\ enriched = <<>>
    /\ new_t = 0
    /\ pid_raw = PyNone
    /\ numeric_id = PyNone
    /\ raised = {}
    /\ IdleExtract
    /\ IdleMapping
    /\ IdleAgg

\* The position in the input of the transaction being processed.
Current == Len(enriched) + 1

\* The statements of the try block.
TryBlock ==
    {"enrich_alias", "enrich_extract", "enrich_lookup", "enrich_category",
     "enrich_brand", "enrich_rating", "enrich_match", "enrich_else"}

\* for t in transactions: new_t = dict(t)
EnrichFor ==
    /\ pc = "enrich_for"
    /\ Current <= Len(transactions)
    /\ LET c == DictCopy(heap, transactions[Current])
       IN  heap' = c.heap /\ new_t' = c.ref
    /\ pc' = "enrich_alias"
    /\ UNCHANGED <<product_mapping, enriched, pid_raw, numeric_id, raised,
                   inputVars, extractVars, mappingVars, aggVars>>

EnrichAlias ==
    /\ pc = "enrich_alias"
    /\ pid_raw' = ReadAlias(heap[new_t])
    /\ pc' = "enrich_extract"
    /\ UNCHANGED <<heap, product_mapping, enriched, new_t, numeric_id, raised,
                   inputVars, extractVars, mappingVars, aggVars>>

EnrichExtract ==
    /\ pc = "enrich_extract"
    /\ numeric_id' = extract_numeric_product_id(pid_raw)
    /\ pc' = "enrich_lookup"
    /\ UNCHANGED <<heap, product_mapping, enriched, new_t, pid_raw, raised,
                   inputVars, extractVars, mappingVars, aggVars>>

EnrichLookup ==
    /\ pc = "enrich_lookup"
    /\ pc' = IF InMapping(numeric_id, product_mapping)
             THEN "enrich_category" ELSE "enrich_else"
    /\ UNCHANGED <<enrichVars, inputVars, extractVars, mappingVars, aggVars>>

\* new_t["API_Category"] = info.get("category")
EnrichCategory ==
    /\ pc = "enrich_category"
    /\ LET r == InfoGet(product_mapping[numeric_id.num], "category")
       IN  /\ ~r.raised
           /\ heap' = [heap EXCEPT ![new_t] = DictSet(@, "API_Category", r.value)]
    /\ pc' = "enrich_brand"
    /\ UNCHANGED <<product_mapping, enriched, new_t, pid_raw, numeric_id, raised,
                   inputVars, extractVars, mappingVars, aggVars>>

\* info.get raises: the mapped value is no dictionary.
EnrichInfoRaises ==
    /\ pc = "enrich_category"
    /\ InfoGet(product_mapping[numeric_id.num], "category").raised
    /\ raised' = raised \cup {<<Current, pc>>}
    /\ pc' = "enrich_except"
    /\ UNCHANGED <<heap, product_mapping, enriched, new_t, pid_raw, numeric_id,
                   inputVars, extractVars, mappingVars, aggVars>>

EnrichBrand ==
    /\ pc = "enrich_brand"
    /\ heap' = [heap EXCEPT ![new_t] =
                   DictSet(@, "API_Brand", InfoGet(product_mapping[numeric_id.num], "brand").value)]
    /\ pc' = "enrich_rating"
    /\ UNCHANGED <<product_mapping, enriched, new_t, pid_raw, numeric_id, raised,
                   inputVars, extractVars, mappingVars, aggVars>>

EnrichRating ==
    /\ pc = "enrich_rating"
    /\ heap' = [heap EXCEPT ![new_t] =
                   DictSet(@, "API_Rating", InfoGet(product_mapping[numeric_id.num], "rating").value)]
    /\ pc' = "enrich_match"
    /\ UNCHANGED <<product_mapping, enriched, new_t, pid_raw, numeric_id, raised,
                   inputVars, extractVars, mappingVars, aggVars>>

EnrichMatch ==
    /\ pc = "enrich_match"
    /\ heap' = [heap EXCEPT ![new_t] = DictSet(@, "API_Match", PyBool(TRUE))]
    /\ pc' = "enrich_append"
    /\ UNCHANGED <<product_mapping, enriched, new_t, pid_raw, numeric_id, raised,
                   inputVars, extractVars, mappingVars, aggVars>>

EnrichElse ==
    /\ pc = "enrich_else"
    /\ heap' = [heap EXCEPT ![new_t] = ElseWrites(@)]
    /\ pc' = "enrich_append"
    /\ UNCHANGED <<product_mapping, enriched, new_t, pid_raw, numeric_id, raised,
                   inputVars, extractVars, mappingVars, aggVars>>

\* Any other exception raised inside the try block, by the statement at pc (a
\* mapping or entry object whose method raises) or asynchronously: the bare
\* except catches every exception, KeyboardInterrupt included.
EnrichRaise ==
    /\ pc \in TryBlock
    /\ raised' = raised \cup {<<Current, pc>>}
    /\ pc' = "enrich_except"
    /\ UNCHANGED <<heap, product_mapping, enriched, new_t, pid_raw, numeric_id,
                   inputVars, extractVars, mappingVars, aggVars>>

EnrichExcept ==
    /\ pc = "enrich_except"
    /\ heap' = [heap EXCEPT ![new_t] = ExceptWrites(@)]
    /\ pc' = "enrich_append"
    /\ UNCHANGED <<product_mapping, enriched, new_t, pid_raw, numeric_id, raised,
                   inputVars, extractVars, mappingVars, aggVars>>

\* enriched.append(new_t)
EnrichAppend ==
    /\ pc = "enrich_append"
    /\ enriched' = Append(enriched, new_t)
    /\ pc' = "enrich_for"
    /\ UNCHANGED <<heap, product_mapping, new_t, pid_raw, numeric_id, raised,
                   inputVars, extractVars, mappingVars, aggVars>>

EnrichReturn ==
    /\ pc = "enrich_for"
    /\ Current > Len(transactions)
    /\ pc' = "enrich_returned"
    /\ UNCHANGED <<enrichVars, inputVars, extractVars, mappingVars, aggVars>>

NextEnrich ==
    \/ EnrichFor \/ EnrichAlias \/ EnrichExtract \/ EnrichLookup
    \/ EnrichCategory \/ EnrichInfoRaises \/ EnrichBrand \/ EnrichRating
    \/ EnrichMatch \/ EnrichElse \/ EnrichRaise \/ EnrichExcept
    \/ EnrichAppend \/ EnrichReturn

SpecEnrich == InitEnrich /\ [][NextEnrich]_vars

----------------------------------------------------------------------------
\* Claims about enrich_sales_data.

\* The i-th record of the output.
Rec(i) == heap[enriched[i]]

\* The positions whose try block raised.
RaisedAt == {r[1] : r \in raised}

NoMatchState(d) ==
    /\ Get(d, "API_Category") = PyNone
    /\ Get(d, "API_Brand") = PyNone
    /\ Get(d, "API_Rating") = PyNone
    /\ Get(d, "API_Match") = PyBool(FALSE)

\* The normalized identifier of a transaction as passed.
IdOf(t) == extract_numeric_product_id(ReadAlias(t))

\* C1 as stated: every output record has API_Category, API_Brand and
\* API_Rating all non-null with API_Match true, or all three null with
\* API_Match false, also when the matched catalog entry has a null field.
C1_AllOrNothing ==
    \A i \in 1..Len(enriched) :
        \/ /\ Get(Rec(i), "API_Category") # PyNone
           /\ Get(Rec(i), "API_Brand") # PyNone
           /\ Get(Rec(i), "API_Rating") # PyNone
           /\ Get(Rec(i), "API_Match") = PyBool(TRUE)
        \/ NoMatchState(Rec(i))

\* C1 as amended: every output record either has API_Match true and carries
\* the category, brand and rating of the catalog entry mapped under its
\* normalized identifier, each null when the entry's field is null or absent,
\* or has all three null and API_Match false.
C1_MatchCopiesEntry ==
    \A i \in 1..Len(enriched) :
        \/ /\ Get(Rec(i), "API_Match") = PyBool(TRUE)
           /\ InMapping(IdOf(given[i]), product_mapping)
           /\ LET info == product_mapping[IdOf(given[i]).num]
              IN  /\ info.kind = "dict"
                  /\ Get(Rec(i), "API_Category") = Get(info.items, "category")
                  /\ Get(Rec(i), "API_Brand") = Get(info.items, "brand")
                  /\ Get(Rec(i), "API_Rating") = Get(info.items, "rating")
        \/ NoMatchState(Rec(i))

\* A matched record whose catalog entry has a null brand.
C1_Witness ==
    \E i \in 1..Len(enriched) :
        /\ Get(Rec(i), "API_Match") = PyBool(TRUE)
        /\ Get(Rec(i), "API_Category") # PyNone
        /\ Get(Rec(i), "API_Brand") = PyNone

Undisturbed(t) ==
    IF InMapping(IdOf(t), product_mapping)
    THEN LET info == product_mapping[IdOf(t).num].items
         IN  [k \in DOMAIN t \cup {"API_Category", "API_Brand", "API_Rating", "API_Match"} |->
                CASE k = "API_Category" -> Get(info, "category")
                  [] k = "API_Brand" -> Get(info, "brand")
                  [] k = "API_Rating" -> Get(info, "rating")
                  [] k = "API_Match" -> PyBool(TRUE)
                  [] OTHER -> t[k]]
    ELSE [k \in DOMAIN t \cup {"API_Category", "API_Brand", "API_Rating", "API_Match"} |->
                CASE k = "API_Match" -> PyBool(FALSE)
                  [] k \in {"API_Category", "API_Brand", "API_Rating"} -> PyNone
                  [] OTHER -> t[k]]

\* C9: a failure raised anywhere in the try block of one transaction leaves
\* that record in the no-match state, the record is still appended, and every
\* other transaction is processed as if nothing had been raised.
C9_FailureIsolated ==
    /\ \A i \in RaisedAt : i <= Len(enriched) => NoMatchState(Rec(i))
    /\ pc = "enrich_returned" => Len(enriched) = Len(transactions)
    /\ \A i \in 1..Len(enriched) : i \notin RaisedAt => Rec(i) = Undisturbed(given[i])

\* The first transaction matched a catalog entry and raised after API_Category
\* was written; the second was enriched with a match all the same.
C9_Witness ==
    /\ pc = "enrich_returned"
    /\ Len(enriched) = 2
    /\ \E r \in raised : r[1] = 1 /\ r[2] \in {"enrich_brand", "enrich_rating", "enrich_match"}
    /\ 2 \notin RaisedAt
    /\ Get(Rec(2), "API_Match") = PyBool(TRUE)

----------------------------------------------------------------------------
\* utlis/data_processor.py: coercion of quantity and unit price.

\* A float counted in hundredths.
PyFloat(h) == [kind |-> "float", chars |-> <<>>, num |-> h]

\* The hundredths a fraction part stands for (the inputs of the model carry at
\* most two fraction digits).
FractionHundredths(f) ==
    IF f = <<>> THEN 0
    ELSE IF Len(f) = 1 THEN 10 * DigitVal(f[1])
    ELSE 10 * DigitVal(f[1]) + DigitVal(f[2])

\* float(s) of a string: surrounding whitespace and one sign are accepted, then
\* digits with at most one point and at least one digit; anything else raises
\* ValueError.
FloatOfChars(s) ==
    LET t == Strip(s)
        signed == t # <<>> /\ Head(t) \in {"-", "+"}
        body == IF signed THEN Tail(t) ELSE t
        points == {k \in 1..Len(body) : body[k] = "."}
        dot == IF points = {} THEN Len(body) + 1 ELSE CHOOSE k \in points : TRUE
        whole == SubSeq(body, 1, dot - 1)
        frac == SubSeq(body, dot + 1, Len(body))
    IN  IF \/ Cardinality(points) > 1
           \/ whole \o frac = <<>>
           \/ ~AllDecimal(whole \o frac)
        THEN Raised
        ELSE LET h == 100 * DigitsValue(whole, 0) + FractionHundredths(frac)
             IN  Ok(PyFloat(IF signed /\ Head(t) = "-" THEN -h ELSE h))

\* float(v): None raises TypeError, a string is parsed, an integer is converted.
PyFloatOf(v) ==
    CASE v.kind = "None" -> Raised
      [] v.kind = "str" -> FloatOfChars(v.chars)
      [] v.kind = "float" -> Ok(v)
      [] OTHER -> Ok(PyFloat(100 * v.num))

\* d.get(key, default)
GetOr(d, key, default) == IF key \in DOMAIN d THEN d[key] ELSE default

\* A transaction that cannot be coerced counted as one of quantity 0.
CoerceLenient(t) ==
    LET q == PyIntOf(GetOr(t, "Quantity", PyInt(0)))
        p == PyFloatOf(GetOr(t, "UnitPrice", PyInt(0)))
    IN  IF q.raised \/ p.raised
        THEN [raised |-> FALSE, qty |-> 0, amount |-> 0]
        ELSE [raised |-> FALSE, qty |-> q.value.num, amount |-> q.value.num * p.value.num]

\* qty = int(t.get("Quantity", 0)); price = float(t.get("UnitPrice", 0)) and
\* qty * price, in hundredths: every aggregation function starts its try block
\* with these, and the except clause skips the transaction when either raises.
Coerce(t) ==
    LET q == PyIntOf(GetOr(t, "Quantity", PyInt(0)))
        p == PyFloatOf(GetOr(t, "UnitPrice", PyInt(0)))
    IN  IF q.raised \/ p.raised
        THEN [raised |-> TRUE, qty |-> 0, amount |-> 0]
        ELSE [raised |-> FALSE, qty |-> q.value.num, amount |-> q.value.num * p.value.num]

\* round(n / d, 2) in hundredths, n and d in the same unit, d # 0: to the
\* nearest hundredth, the even one of two equally near.  (Python rounds the
\* binary float, which at an exact decimal tie may lie on either side.)
RoundDiv(n, d) ==
    LET nn == IF d < 0 THEN -n ELSE n
        dd == IF d < 0 THEN -d ELSE d
        q == nn \div dd
        r == nn - q * dd
    IN  IF 2 * r < dd THEN q
        ELSE IF 2 * r > dd THEN q + 1
        ELSE IF q % 2 = 0 THEN q ELSE q + 1

\* The characters of the model in code-point order.
CharOrder ==
    <<" ", "+", "-", ".", "0", "1", "2", "3", "4", "5", "6", "7", "8", "9",
      "A", "B", "E", "N", "P", "S", "T", "U", "X",
      "a", "c", "k", "n", "o", "p", "w", "x">>

Ord(c) == CHOOSE k \in 1..Len(CharOrder) : CharOrder[k] = c

\* a < b on strings: by code point, a proper prefix first.
RECURSIVE StrLess(_, _)
StrLess(a, b) ==
    IF b = <<>> THEN FALSE
    ELSE IF a = <<>> THEN TRUE
    ELSE IF Head(a) # Head(b) THEN Ord(Head(a)) < Ord(Head(b))
    ELSE StrLess(Tail(a), Tail(b))

\* The position of the group with this key, 0 when there is none.
IndexOfKey(groups, key) ==
    IF \E k \in 1..Len(groups) : groups[k].key = key
    THEN CHOOSE k \in 1..Len(groups) : groups[k].key = key
    ELSE 0

Unknown == PyStr(<<"U", "n", "k", "n", "o", "w", "n">>)

\* The transactions as the functions read them.
TxnList == [j \in 1..Len(transactions) |-> heap[transactions[j]]]

----------------------------------------------------------------------------
\* utlis/data_processor.py: the aggregation functions.  A dictionary of groups
\* is the sequence of its entries in insertion order.

\* F applied to the value of e, computed once.
ByValue(e, F(_)) == CHOOSE out \in {F(v) : v \in {e}} : TRUE

\* list.sort and sorted are stable: the elements in ascending order of rank,
\* those of equal rank in the order they had.  rank[k] is the rank of s[k].
StableSortOf(s, rank) ==
    LET Pos(i) == 1 + Cardinality({j \in 1..Len(s) :
                         rank[j] < rank[i] \/ (rank[j] = rank[i] /\ j < i)})
        place == [i \in 1..Len(s) |-> Pos(i)]
    IN  ByValue(place, LAMBDA pl :
            [p \in 1..Len(s) |-> s[CHOOSE i \in 1..Len(s) : pl[i] = p]])

StableSort(s, rank) ==
    ByValue(s, LAMBDA sv :
        ByValue([k \in 1..Len(sv) |-> rank[k]], LAMBDA rv : StableSortOf(sv, rv)))

\* The rank of a string among strings: how many of them are less than it.
StrRank(strs, a) == Cardinality({k \in 1..Len(strs) : StrLess(strs[k], a)})

RECURSIVE TotalFold(_, _, _)
TotalFold(txns, k, total) ==
    IF k > Len(txns) THEN total
    ELSE ByValue(Coerce(txns[k]), LAMBDA c :
             TotalFold(txns, k + 1, IF c.raised THEN total ELSE total + c.amount))

calculate_total_revenue(txns) == ByValue(txns, LAMBDA ts : TotalFold(ts, 1, 0))

\* One iteration of the loop of region_wise_sales.
RegionStep(groups, t) ==
    LET c == Coerce(t)
        region == GetOr(t, "Region", Unknown)
        i == IndexOfKey(groups, region)
    IN  IF c.raised THEN groups
        ELSE IF i = 0
        THEN Append(groups, [key |-> region, total_sales |-> c.amount,
                             transaction_count |-> 1])
        ELSE [groups EXCEPT ![i].total_sales = @ + c.amount,
                            ![i].transaction_count = @ + 1]

RECURSIVE RegionFold(_, _, _)
RegionFold(txns, k, groups) ==
    IF k > Len(txns) THEN groups
    ELSE ByValue(RegionStep(groups, txns[k]), LAMBDA g : RegionFold(txns, k + 1, g))

\* The share as a fraction of 1 instead of a percentage.
PercentageAsFraction(sales, overall_total) ==
    IF overall_total # 0 THEN RoundDiv(sales * 100, overall_total) ELSE 0

\* pct = (sales / overall_total * 100) if overall_total else 0.0, rounded
Percentage(sales, overall_total) ==
    IF overall_total # 0 THEN RoundDiv(sales * 10000, overall_total) ELSE 0

RegionStats(region_data, overall_total) ==
    [k \in 1..Len(region_data) |->
        [region |-> region_data[k].key,
         total_sales |-> region_data[k].total_sales,
         transaction_count |-> region_data[k].transaction_count,
         percentage |-> Percentage(region_data[k].total_sales, overall_total)]]

region_wise_sales(txns) ==
    ByValue(txns, LAMBDA ts :
        ByValue(calculate_total_revenue(ts), LAMBDA overall_total :
            ByValue(RegionFold(ts, 1, <<>>), LAMBDA region_data :
                StableSort(RegionStats(region_data, overall_total),
                           [k \in 1..Len(region_data) |-> -region_data[k].total_sales]))))

\* One iteration of the loop of top_selling_products and of
\* low_performing_products.
ProductStep(groups, t) ==
    LET c == Coerce(t)
        name == GetOr(t, "ProductName", Unknown)
        i == IndexOfKey(groups, name)
    IN  IF c.raised THEN groups
        ELSE IF i = 0
        THEN Append(groups, [key |-> name, qty |-> c.qty, revenue |-> c.amount])
        ELSE [groups EXCEPT ![i].qty = @ + c.qty, ![i].revenue = @ + c.amount]

RECURSIVE ProductFold(_, _, _)
ProductFold(txns, k, groups) ==
    IF k > Len(txns) THEN groups
    ELSE ByValue(ProductStep(groups, txns[k]), LAMBDA g : ProductFold(txns, k + 1, g))

\* items.append((name, product_qty[name], round(product_revenue[name], 2)))
ProductItems(groups) ==
    [k \in 1..Len(groups) |-> <<groups[k].key, groups[k].qty, groups[k].revenue>>]

\* items[:n]
Prefix(s, n) ==
    IF n >= 0
    THEN SubSeq(s, 1, IF n < Len(s) THEN n ELSE Len(s))
    ELSE SubSeq(s, 1, IF Len(s) + n > 0 THEN Len(s) + n ELSE 0)

\* sorted ascending and then reversed: equal quantities end in reverse order
SortByQtyAscendingReversed(items) ==
    ByValue(StableSort(items, [k \in 1..Len(items) |-> items[k][2]]), LAMBDA up :
        [k \in 1..Len(up) |-> up[Len(up) + 1 - k]])

\* items.sort(key=lambda x: x[1], reverse=True)
SortByQtyDescending(items) == StableSort(items, [k \in 1..Len(items) |-> -items[k][2]])

top_selling_products(txns, n) ==
    ByValue(txns, LAMBDA ts :
        ByValue(ProductItems(ProductFold(ts, 1, <<>>)), LAMBDA items :
            ByValue(SortByQtyDescending(items), LAMBDA sorted : Prefix(sorted, n))))

low_performing_products(txns, threshold) ==
    ByValue(txns, LAMBDA ts :
        ByValue(ProductItems(ProductFold(ts, 1, <<>>)), LAMBDA items :
            ByValue(SelectSeq(items, LAMBDA x : x[2] < threshold), LAMBDA low :
                StableSort(low, [k \in 1..Len(low) |-> low[k][2]]))))

\* One iteration of the loop of customer_analysis.
CustomerStep(groups, t) ==
    LET c == Coerce(t)
        cid == GetOr(t, "CustomerID", Unknown)
        pname == GetOr(t, "ProductName", Unknown)
        i == IndexOfKey(groups, cid)
    IN  IF c.raised THEN groups
        ELSE IF i = 0
        THEN Append(groups, [key |-> cid, total_spent |-> c.amount,
                             purchase_count |-> 1, products_bought |-> {pname}])
        ELSE [groups EXCEPT ![i].total_spent = @ + c.amount,
                            ![i].purchase_count = @ + 1,
                            ![i].products_bought = @ \cup {pname}]

RECURSIVE CustomerFold(_, _, _)
CustomerFold(txns, k, groups) ==
    IF k > Len(txns) THEN groups
    ELSE ByValue(CustomerStep(groups, txns[k]), LAMBDA g : CustomerFold(txns, k + 1, g))

\* sorted(list(names)) of a set of strings
SortedNames(names) ==
    LET Pos(x) == 1 + Cardinality({y \in names : StrLess(y.chars, x.chars)})
    IN  [p \in 1..Cardinality(names) |-> CHOOSE x \in names : Pos(x) = p]

CustomerStats(customer_data) ==
    [k \in 1..Len(customer_data) |->
        [cid |-> customer_data[k].key,
         total_spent |-> customer_data[k].total_spent,
         purchase_count |-> customer_data[k].purchase_count,
         avg_order_value |-> IF customer_data[k].purchase_count # 0
                             THEN RoundDiv(customer_data[k].total_spent,
                                           customer_data[k].purchase_count)
                             ELSE 0,
         products_bought |-> SortedNames(customer_data[k].products_bought)]]

customer_analysis(txns) ==
    ByValue(txns, LAMBDA ts :
        ByValue(CustomerFold(ts, 1, <<>>), LAMBDA customer_data :
            StableSort(CustomerStats(customer_data),
                       [k \in 1..Len(customer_data) |-> -customer_data[k].total_spent])))

\* One iteration of the loop of daily_sales_trend.
DailyStep(groups, t) ==
    LET c == Coerce(t)
        date == GetOr(t, "Date", Unknown)
        cid == GetOr(t, "CustomerID", Unknown)
        i == IndexOfKey(groups, date)
    IN  IF c.raised THEN groups
        ELSE IF i = 0
        THEN Append(groups, [key |-> date, revenue |-> c.amount,
                             transaction_count |-> 1, unique_customers |-> {cid}])
        ELSE [groups EXCEPT ![i].revenue = @ + c.amount,
                            ![i].transaction_count = @ + 1,
                            ![i].unique_customers = @ \cup {cid}]

RECURSIVE DailyFold(_, _, _)
DailyFold(txns, k, groups) ==
    IF k > Len(txns) THEN groups
    ELSE ByValue(DailyStep(groups, txns[k]), LAMBDA g : DailyFold(txns, k + 1, g))

DailyStats(daily) ==
    [k \in 1..Len(daily) |->
        [date |-> daily[k].key,
         revenue |-> daily[k].revenue,
         transaction_count |-> daily[k].transaction_count,
         unique_customers |-> Cardinality(daily[k].unique_customers)]]

\* sorted(daily.keys()): the days in ascending order of the date string.
SortedByDate(days) ==
    StableSort(days, [k \in 1..Len(days) |->
                        StrRank([j \in 1..Len(days) |-> days[j].date.chars], days[k].date.chars)])

daily_sales_trend(txns) ==
    ByValue(txns, LAMBDA ts :
        ByValue(DailyStats(DailyFold(ts, 1, <<>>)), LAMBDA days : SortedByDate(days)))

\* The placeholder find_peak_sales_day returns when it found no day.
NoPeak == <<PyStr(<<"N", "/", "A">>), 0, 0>>

\* best_rev = -1, in hundredths
InitialBestRev == -100

\* if stats["revenue"] > best_rev
BeatsBest(revenue, best_rev) == revenue > best_rev

\* One iteration of the loop of find_peak_sales_day.
PeakStep(best, stats) ==
    IF BeatsBest(stats.revenue, best.rev)
    THEN [date |-> stats.date, rev |-> stats.revenue, count |-> stats.transaction_count]
    ELSE best

RECURSIVE PeakFold(_, _, _)
PeakFold(trend, k, best) ==
    IF k > Len(trend) THEN best
    ELSE ByValue(PeakStep(best, trend[k]), LAMBDA b : PeakFold(trend, k + 1, b))

find_peak_sales_day(txns) ==
    ByValue(daily_sales_trend(txns), LAMBDA trend :
        ByValue(PeakFold(trend, 1, [date |-> PyNone, rev |-> InitialBestRev, count |-> 0]),
                LAMBDA best :
                    IF best.date = PyNone THEN NoPeak ELSE <<best.date, best.rev, best.count>>))

----------------------------------------------------------------------------
\* The transaction sets the aggregation functions are run on: every list of at
\* most MaxSales of these transactions.

Sale(date, region, product, customer, qty, price) ==
    [Date |-> PyStr(date), Region |-> PyStr(region), ProductName |-> PyStr(product),
     CustomerID |-> PyStr(customer), Quantity |-> qty, UnitPrice |-> price]

Without(d, keys) == [k \in DOMAIN d \ keys |-> d[k]]

North(qty, price) == Sale(<<"0", "1">>, <<"N">>, <<"A">>, <<"c", "1">>, qty, price)

South(qty, price) == Sale(<<"0", "2">>, <<"S">>, <<"B">>, <<"c", "2">>, qty, price)

East(qty, price) == Sale(<<"0", "1">>, <<"E">>, <<"B">>, <<"c", "2">>, qty, price)

One == PyStr(<<"1">>)

SaleSamples ==
    { North(One, One),
      North(PyStr(<<"2">>), One),
      North(PyStr(<<"x">>), One),
      North(PyStr(<<"-", "3">>), One),
      South(One, One),
      South(PyStr(<<" ", "2", " ">>), PyStr(<<"1", ".", "5">>)),
      South(One, PyStr(<<"x">>)),
      South(PyNone, One),
      East(One, One),
      East(PyStr(<<"2", ".", "5">>), One),
      Without(East(One, PyStr(<<"2">>)), {"Quantity"}),
      Without(Sale(<<>>, <<>>, <<>>, <<>>, PyInt(1), PyInt(2)),
              {"Date", "Region", "ProductName", "CustomerID"}) }

\* def top_selling_products(transactions, n=5)
DefaultN == 5

\* def low_performing_products(transactions, threshold=10)
DefaultThreshold == 10

InitAggregate ==
    /\ pc = "agg_call"
    /\ \E n \in 0..MaxSales :
          /\ heap \in [1..n -> SaleSamples]
          /\ transactions = [j \in 1..n |-> j]
    /\ given = heap
    /\ product_mapping = <<>>
    /\ enriched = <<>>
    /\ new_t = 0
    /\ pid_raw = PyNone
    /\ numeric_id = PyNone
    /\ raised = {}
    /\ IdleExtract
    /\ IdleMapping
    /\ IdleAgg

Returns(name, a, value) ==
    /\ pc = "agg_call"
    /\ fn' = name
    /\ arg' = a
    /\ result' = value
    /\ pc' = "agg_returned"
    /\ UNCHANGED <<extractVars, mappingVars, inputVars, enrichVars>>

CalculateTotalRevenue ==
    Returns("calculate_total_revenue", 0, calculate_total_revenue(TxnList))

RegionWiseSales == Returns("region_wise_sales", 0, region_wise_sales(TxnList))

TopSellingProducts ==
    \E n \in 0..MaxArg \cup {DefaultN} :
        Returns("top_selling_products", n, top_selling_products(TxnList, n))

CustomerAnalysis == Returns("customer_analysis", 0, customer_analysis(TxnList))

DailySalesTrend == Returns("daily_sales_trend", 0, daily_sales_trend(TxnList))

FindPeakSalesDay == Returns("find_peak_sales_day", 0, find_peak_sales_day(TxnList))

LowPerformingProducts ==
    \E threshold \in 0..MaxArg \cup {DefaultThreshold} :
        Returns("low_performing_products", threshold,
                low_performing_products(TxnList, threshold))

NextAggregate ==
    \/ CalculateTotalRevenue \/ RegionWiseSales \/ TopSellingProducts
    \/ CustomerAnalysis \/ DailySalesTrend \/ FindPeakSalesDay
    \/ LowPerformingProducts

SpecAggregate == InitAggregate /\ [][NextAggregate]_vars

----------------------------------------------------------------------------
\* Claims about the aggregation functions.

Returned(name) == pc = "agg_returned" /\ fn = name

\* Quantity and unit price of t both coerce.
Coercible(t) ==
    /\ ~PyIntOf(GetOr(t, "Quantity", PyInt(0))).raised
    /\ ~PyFloatOf(GetOr(t, "UnitPrice", PyInt(0))).raised

\* quantity * unit price of a coercible transaction, in hundredths
AmountOf(t) ==
    PyIntOf(GetOr(t, "Quantity", PyInt(0))).value.num
        * PyFloatOf(GetOr(t, "UnitPrice", PyInt(0))).value.num

QuantityOf(t) == PyIntOf(GetOr(t, "Quantity", PyInt(0))).value.num

\* The transactions that contribute, in input order.
Contributing == SelectSeq(TxnList, Coercible)

RECURSIVE SumTo(_, _)
SumTo(s, k) == IF k = 0 THEN 0 ELSE s[k] + SumTo(s, k - 1)

\* The sum of a sequence of numbers.
SeqSum(s) == ByValue(s, LAMBDA sv : SumTo(sv, Len(sv)))

\* C3: find_peak_sales_day returns the placeholder for an empty transaction
\* set; for every non-empty set it returns a date that is a key of
\* daily_sales_trend for the same set, whose revenue is at least that of every
\* date of the trend, the earliest in ascending date order among those tied.
C3_PeakAsSpecified ==
    Returned("find_peak_sales_day") =>
        IF TxnList = <<>>
        THEN result = NoPeak
        ELSE LET trend == daily_sales_trend(TxnList)
             IN  \E k \in 1..Len(trend) :
                    /\ result[1] = trend[k].date
                    /\ result[2] = trend[k].revenue
                    /\ \A j \in 1..Len(trend) : trend[j].revenue <= result[2]
                    /\ \A j \in 1..(k - 1) : trend[j].revenue < result[2]

\* C7: when the overall total revenue is greater than 0 the percentages of
\* region_wise_sales sum to 100 within 0.005 per region; when the overall
\* total is 0 every percentage is 0.  (Percentages are in hundredths.)
C7_PercentagesSumTo100 ==
    Returned("region_wise_sales") =>
        LET total == calculate_total_revenue(TxnList)
            sum == SeqSum([k \in 1..Len(result) |-> result[k].percentage])
            diff == IF sum >= 10000 THEN sum - 10000 ELSE 10000 - sum
        IN  /\ total > 0 => 2 * diff <= Len(result)
            /\ total = 0 => \A k \in 1..Len(result) : result[k].percentage = 0

\* Three regions of equal revenue: 33.33 each, 99.99 in all.
C7_Witness ==
    /\ Returned("region_wise_sales")
    /\ calculate_total_revenue(TxnList) > 0
    /\ Len(result) = 3
    /\ SeqSum([k \in 1..Len(result) |-> result[k].percentage]) = 9999

\* The product names of the transactions txns.
NamesOf(txns) == {GetOr(txns[j], "ProductName", Unknown) : j \in 1..Len(txns)}

\* Per product name of the coercible transactions txns: the summed quantity,
\* the summed revenue and the position of the first transaction of that name.
ProductSummary(txns) ==
    [name \in NamesOf(txns) |->
        LET with == {j \in 1..Len(txns) : GetOr(txns[j], "ProductName", Unknown) = name}
        IN  [qty |-> SeqSum([j \in 1..Len(txns) |->
                        IF j \in with THEN QuantityOf(txns[j]) ELSE 0]),
             revenue |-> SeqSum([j \in 1..Len(txns) |->
                        IF j \in with THEN AmountOf(txns[j]) ELSE 0]),
             first |-> CHOOSE j \in with : \A j2 \in with : j <= j2]]

ProductNames == NamesOf(Contributing)

\* a is ranked before b: a larger summed quantity, or the same and met first.
RankedBefore(ps, a, b) ==
    \/ ps[a].qty > ps[b].qty
    \/ ps[a].qty = ps[b].qty /\ ps[a].first < ps[b].first

\* res is the first n products of the summary ps in rank order.
IsTopN(res, n, ps) ==
    /\ Len(res) = IF n < Cardinality(DOMAIN ps) THEN n ELSE Cardinality(DOMAIN ps)
    /\ \A k \in 1..Len(res) :
          /\ res[k][1] \in DOMAIN ps
          /\ res[k][2] = ps[res[k][1]].qty
          /\ res[k][3] = ps[res[k][1]].revenue
    /\ \A k, l \in 1..Len(res) : k < l => RankedBefore(ps, res[k][1], res[l][1])
    /\ \A name \in DOMAIN ps \ {res[k][1] : k \in 1..Len(res)} :
          \A k \in 1..Len(res) :
              /\ ps[name].qty <= res[k][2]
              /\ RankedBefore(ps, res[k][1], name)

C10_UncoercibleSkipped ==
    pc = "agg_returned" =>
        /\ fn = "calculate_total_revenue" =>
              /\ result = SeqSum([j \in 1..Len(Contributing) |-> AmountOf(Contributing[j])])
              /\ result = calculate_total_revenue(Contributing)
        /\ fn = "region_wise_sales" => result = region_wise_sales(Contributing)
        /\ fn = "top_selling_products" => result = top_selling_products(Contributing, arg)
        /\ fn = "customer_analysis" => result = customer_analysis(Contributing)
        /\ fn = "daily_sales_trend" => result = daily_sales_trend(Contributing)
        /\ fn = "low_performing_products" => result = low_performing_products(Contributing, arg)

\* A day whose only transaction cannot be coerced is no key of the trend,
\* while the other day is.
C10_Witness ==
    /\ Returned("daily_sales_trend")
    /\ Len(TxnList) = 2
    /\ ~Coercible(TxnList[1])
    /\ Coercible(TxnList[2])
    /\ GetOr(TxnList[1], "Date", Unknown) # GetOr(TxnList[2], "Date", Unknown)
    /\ Len(result) = 1
    /\ result[1].date = GetOr(TxnList[2], "Date", Unknown)

====
